---- MODULE Spec2Model ----
(***************************************************************************)
(* Model of the Flask admin/catalog server (app.py) and its two tables     *)
(* (models.py).  Text is modelled as a sequence of one-character strings,  *)
(* so that trimming, file-name sanitising, splitting at the last dot and   *)
(* the formatting of the collision counter are computed, not assumed.      *)
(***************************************************************************)
EXTENDS Integers, Sequences, FiniteSets, TLC

(* ----------------------------- bounds ---------------------------------- *)

\* Number of uploaded payloads written, wholly or in part, to the upload folder.
MaxUploads == 3

(* ------------------------- text primitives ----------------------------- *)

\* A form field or file part that may be absent from the request:
\* request.form.get('category_id') and request.files.get('video_file')
\* return None when it is.
Missing == [present |-> FALSE, value |-> <<>>]

Given(s) == [present |-> TRUE, value |-> s]

Whitespace == {" "}

Digits == {"0", "1", "2", "3", "4", "5", "6", "7", "8", "9"}

DigitVal(c) ==
    CASE c = "0" -> 0 [] c = "1" -> 1 [] c = "2" -> 2 [] c = "3" -> 3
      [] c = "4" -> 4 [] c = "5" -> 5 [] c = "6" -> 6 [] c = "7" -> 7
      [] c = "8" -> 8 [] c = "9" -> 9

DigitChar(d) == <<"0", "1", "2", "3", "4", "5", "6", "7", "8", "9">>[d + 1]

RECURSIVE lstrip(_)
lstrip(s) ==
    IF s # <<>> /\ Head(s) \in Whitespace THEN lstrip(Tail(s)) ELSE s

RECURSIVE rstrip(_)
rstrip(s) ==
    IF s # <<>> /\ s[Len(s)] \in Whitespace
    THEN rstrip(SubSeq(s, 1, Len(s) - 1))
    ELSE s

\* .strip() left out
strip_missing(s) == s

\* str.strip()
strip(s) == rstrip(lstrip(s))

\* str(counter) inside the f-string
RECURSIVE IntToStr(_)
IntToStr(n) ==
    IF n < 10 THEN <<DigitChar(n)>>
    ELSE IntToStr(n \div 10) \o <<DigitChar(n % 10)>>

(* ------------------- werkzeug.utils.secure_filename -------------------- *)

\* _filename_ascii_strip_re keeps [A-Za-z0-9_.-]; the letters are the ones
\* that occur in the modelled uploads.
SafeChars == Digits \cup {"f", "g", "m", "_", ".", "-"}

PathSeparators == {"/"}

\* filename.replace(sep, " ")
ReplaceSeparators(s) ==
    [i \in 1..Len(s) |-> IF s[i] \in PathSeparators THEN " " ELSE s[i]]

\* "_".join(filename.split()): runs of whitespace inside become one "_",
\* leading and trailing whitespace disappears.
RECURSIVE JoinWords(_)
JoinWords(s) ==
    IF s = <<>> THEN <<>>
    ELSE IF Head(s) \in Whitespace
         THEN LET rest == lstrip(s) IN
              IF rest = <<>> THEN <<>> ELSE <<"_">> \o JoinWords(rest)
         ELSE <<Head(s)>> \o JoinWords(Tail(s))

SplitJoin(s) == JoinWords(lstrip(s))

\* _filename_ascii_strip_re.sub("", ...)
RECURSIVE KeepSafe(_)
KeepSafe(s) ==
    IF s = <<>> THEN <<>>
    ELSE IF Head(s) \in SafeChars
         THEN <<Head(s)>> \o KeepSafe(Tail(s))
         ELSE KeepSafe(Tail(s))

\* .strip("._")
RECURSIVE StripDotUnderscore(_)
StripDotUnderscore(s) ==
    IF s # <<>> /\ Head(s) \in {".", "_"} THEN StripDotUnderscore(Tail(s))
    ELSE IF s # <<>> /\ s[Len(s)] \in {".", "_"}
         THEN StripDotUnderscore(SubSeq(s, 1, Len(s) - 1))
         ELSE s

secure_filename(raw) ==
    StripDotUnderscore(KeepSafe(SplitJoin(ReplaceSeparators(raw))))

(* ---------------------- collision-avoiding rename ---------------------- *)

\* Index of the last "." of s, 0 when there is none.
LastDot(s) ==
    LET dots == {i \in 1..Len(s) : s[i] = "."} IN
    IF dots = {} THEN 0 ELSE CHOOSE i \in dots : \A j \in dots : j <= i

\* filename.rsplit('.', 1)
rsplit_dot(s) ==
    IF LastDot(s) = 0 THEN <<s>>
    ELSE <<SubSeq(s, 1, LastDot(s) - 1), SubSeq(s, LastDot(s) + 1, Len(s))>>

\* f"{name_part}_{counter}.{ext}" if ext else f"{name_part}_{counter}"
Candidate(original_name, counter) ==
    LET name_part == original_name[1]
        ext == IF Len(original_name) > 1 THEN original_name[2] ELSE <<>>
    IN  IF ext # <<>>
        THEN name_part \o <<"_">> \o IntToStr(counter) \o <<".">> \o ext
        ELSE name_part \o <<"_">> \o IntToStr(counter)

\* the test of the folder left out
PathExists_blind(store, filename) == filename = <<>>

\* save_path.exists(): the empty name is the upload folder itself, which
\* ensure_upload_folder created.
PathExists(store, filename) == filename = <<>> \/ filename \in DOMAIN store

\* "if" in place of "while": one rename, not tested again
Probe_once(store, original_name, filename, counter) ==
    IF PathExists(store, filename) THEN Candidate(original_name, counter) ELSE filename

RECURSIVE Probe(_, _, _, _)
Probe(store, original_name, filename, counter) ==
    IF PathExists(store, filename)
    THEN Probe(store, original_name, Candidate(original_name, counter), counter + 1)
    ELSE filename

\* Lines 170-180: the name the upload is saved under.
ResolveFilename(store, raw) ==
    LET filename == secure_filename(raw) IN
    Probe(store, rsplit_dot(filename), filename, 1)

(* --------------------------- integers ---------------------------------- *)

\* Integers that come from the request are kept as canonical digit strings
\* (no leading zeros), since a request may carry more digits than a
\* database integer holds.
RECURSIVE Canonical(_)
Canonical(d) ==
    IF Len(d) > 1 /\ Head(d) = "0" THEN Canonical(Tail(d)) ELSE d

IsDigits(s) == s # <<>> /\ \A i \in 1..Len(s) : s[i] \in Digits

\* int(category_id) for text made of optional surrounding whitespace and
\* decimal digits; anything else raises ValueError (ok = FALSE).
PyInt(s) ==
    LET t == strip(s) IN
    IF IsDigits(t) THEN [ok |-> TRUE, digits |-> Canonical(t)]
    ELSE [ok |-> FALSE, digits |-> <<>>]

\* 2^63 - 1, the largest value of an SQLite INTEGER, as digits.
SqliteMaxInteger ==
    <<"9", "2", "2", "3", "3", "7", "2", "0", "3", "6", "8", "5", "4", "7",
      "7", "5", "8", "0", "7">>

RECURSIVE DigitsLeq(_, _)
DigitsLeq(a, b) ==
    IF a = <<>> THEN TRUE
    ELSE IF DigitVal(Head(a)) # DigitVal(Head(b))
         THEN DigitVal(Head(a)) < DigitVal(Head(b))
         ELSE DigitsLeq(Tail(a), Tail(b))

\* Whether the sqlite3 driver can bind the (non-negative) integer d as a
\* query parameter; it raises OverflowError when it cannot.
FitsSqliteInteger(d) ==
    \/ Len(d) < Len(SqliteMaxInteger)
    \/ Len(d) = Len(SqliteMaxInteger) /\ DigitsLeq(d, SqliteMaxInteger)

(* ----------------------------- storage --------------------------------- *)

Sessions == {"s1", "s2"}

\* os.environ ADMIN_USERNAME / ADMIN_PASSWORD
AdminUsername == "admin"

AdminPassword == "pw"

VARIABLES
    logged_in,    \* the sessions whose cookie holds logged_in = True
    categories,   \* rows of table category: [id, name]
    videos,       \* rows of table video_content
    files,        \* the upload folder: file name -> content
    nUploads,     \* payloads handed to file.save so far; numbers the payloads
    last,         \* the last completed request, its response and the state before it
    procs,        \* handler threads: where each is in its request, and its locals
    stored,       \* payload -> the file name it was written to (history)
    overlapped    \* whether two add_video requests have run at the same time (history)

vars == <<logged_in, categories, videos, files, nUploads, last, procs, stored, overlapped>>

conc == <<procs, stored, overlapped>>

\* INTEGER PRIMARY KEY: one more than the largest id in the table.
NextId(rows) ==
    IF rows = {} THEN 1
    ELSE (CHOOSE r \in rows : \A q \in rows : q.id <= r.id).id + 1

\* Category.query.get(id): the row, or none.  The database is SQLite
\* (SQLALCHEMY_DATABASE_URI), whose driver binds a Python int as a 64-bit
\* signed INTEGER and raises OverflowError for a larger one: "overflow".
CategoryGet(d) ==
    IF ~FitsSqliteInteger(d) THEN [found |-> "overflow", rows |-> {}]
    ELSE LET hit == {c \in categories : IntToStr(c.id) = d} IN
         [found |-> IF hit = {} THEN "none" ELSE "row", rows |-> hit]

\* Category.query.filter_by(name=name).first() is None
CategoryNameFree(name) == \A c \in categories : c.name # name

\* unique=True left out of the column
UniqueNameAllows_any(name) == TRUE

\* The UNIQUE constraint on category.name: the insert is rejected
\* (IntegrityError) when the name is already stored.
UniqueNameAllows(name) == \A c \in categories : c.name # name

\* The file with one more entry, written by open(path, "wb").
WriteFile(store, filename, content) ==
    [n \in DOMAIN store \cup {filename} |->
        IF n = filename THEN content ELSE store[n]]

(* ----------------------------- responses ------------------------------- *)

Redirect(endpoint) == [kind |-> "redirect", to |-> endpoint]

Render(template, error) == [kind |-> "html", template |-> template, error |-> error]

Json(body) == [kind |-> "json", body |-> body]

\* abort(404), or the 500 of an exception that leaves the handler
Failure(code) == [kind |-> "error", code |-> code]

Snapshot ==
    [logged_in |-> logged_in, categories |-> categories,
     videos |-> videos, files |-> files]

Completed(op, sid, args, resp) ==
    last' = [op |-> op, sid |-> sid, args |-> args, resp |-> resp, pre |-> Snapshot]

(* ------------------------------ inputs --------------------------------- *)

\* Submitted user names and passwords: the right one, the other field's
\* value, and a value that is neither.
CredentialInputs == {"admin", "pw", "x"}

NameInputs == {<<" ">>, <<"a">>, <<" ", "a">>, <<"b">>}

HugeId ==
    <<"9", "2", "2", "3", "3", "7", "2", "0", "3", "6", "8", "5", "4", "7",
      "7", "5", "8", "0", "8">>

Form(title, category_id, file) ==
    [title |-> title, analysis |-> <<"n", " ">>, category_id |-> category_id, file |-> file]

\* Names of uploaded files: plain, with a path, one that looks like a
\* renamed upload, and one that sanitises to the empty name.
UploadNames ==
    {<<"f", ".", "m">>, <<"/", "f", ".", "m">>, <<"f", "_", "1", ".", "m">>, <<".", ".">>}

\* add_video forms that pass every check once category 1 (or 2) exists.
ValidForms(ids) ==
    {Form(<<" ", "t">>, Given(id), Given(name)) : id \in ids, name \in UploadNames}

\* add_video forms with one field (the last one: every field) that fails a check.
InvalidForms ==
    {Form(<<" ">>, Given(<<"1">>), Given(<<"f", ".", "m">>))}
    \cup {Form(<<" ", "t">>, c, Given(<<"f", ".", "m">>)) :
             c \in {Missing, Given(<<>>), Given(<<"x">>), Given(<<"7">>), Given(HugeId)}}
    \cup {Form(<<" ", "t">>, Given(<<"1">>), f) : f \in {Missing, Given(<<>>)}}
    \cup {Form(<<>>, Missing, Missing)}

UrlIdInputs == {<<"1">>, <<"2">>, <<"7">>, HugeId}

\* How file.save ends: the file is written; open() fails and nothing is
\* created; or a write fails and a truncated file is left behind.
SaveOutcomes == {"ok", "open_failed", "write_failed"}

(* --------------------------- authentication ---------------------------- *)

\* "or" in place of "and"
check_auth_either(username, password) ==
    username = AdminUsername \/ password = AdminPassword

check_auth(username, password) ==
    username = AdminUsername /\ password = AdminPassword

\* one flag for the whole server in place of one per session
login_required_global(sid) == logged_in # {}

\* the test of login_required's wrapper: session.get('logged_in')
login_required(sid) == sid \in logged_in

AdminLogin(sid, method, username, password) ==
    /\ IF method = "POST" /\ check_auth(username, password)
       THEN /\ logged_in' = logged_in \cup {sid}
            /\ Completed("login", sid,
                         [method |-> method, username |-> username, password |-> password],
                         Redirect("admin_index"))
       ELSE /\ logged_in' = logged_in
            /\ Completed("login", sid,
                         [method |-> method, username |-> username, password |-> password],
                         Render("login.html",
                                IF method = "POST" THEN "bad login or password" ELSE "none"))
    /\ UNCHANGED <<categories, videos, files, nUploads, conc>>

AdminLogout(sid) ==
    /\ logged_in' = logged_in \ {sid}
    /\ Completed("logout", sid, [none |-> 0], Redirect("admin_login"))
    /\ UNCHANGED <<categories, videos, files, nUploads, conc>>

AdminIndex(sid) ==
    /\ Completed("index", sid, [none |-> 0],
                 IF login_required(sid) THEN Render("admin.html", "none")
                 ELSE Redirect("admin_login"))
    /\ UNCHANGED <<logged_in, categories, videos, files, nUploads, conc>>

(* ----------------------------- admin: write ---------------------------- *)

\* Category(name=name); db.session.add; db.session.commit
InsertCategory(name) ==
    categories \cup {[id |-> NextId(categories), name |-> name]}

AdminAddCategory(sid, name_in) ==
    LET name == strip(name_in)
        args == [name |-> name_in]
    IN
    /\ IF ~login_required(sid)
       THEN /\ categories' = categories
            /\ Completed("add_category", sid, args, Redirect("admin_login"))
       ELSE IF name = <<>>
       THEN /\ categories' = categories
            /\ Completed("add_category", sid, args, Redirect("admin_index"))
       ELSE IF ~CategoryNameFree(name)
       THEN /\ categories' = categories
            /\ Completed("add_category", sid, args, Redirect("admin_index"))
       ELSE IF ~UniqueNameAllows(name)
       THEN /\ categories' = categories
            /\ Completed("add_category", sid, args, Failure(500))
       ELSE /\ categories' = InsertCategory(name)
            /\ Completed("add_category", sid, args, Redirect("admin_index"))
    /\ UNCHANGED <<logged_in, videos, files, nUploads, conc>>

\* bool(FileStorage) is bool(filename); a part that is absent is None.
FileTruthy(file) == file.present /\ file.value # <<>>

\* Lines 155-168: "redirect" when a check sends the admin back, "overflow"
\* when the category query raises, "ok" when the upload goes on.
AddVideoCheck(title_in, category_in, file_in) ==
    IF strip(title_in) = <<>> \/ ~FileTruthy(file_in)
       \/ ~category_in.present \/ category_in.value = <<>>
    THEN "redirect"
    ELSE IF ~PyInt(category_in.value).ok THEN "redirect"
    ELSE LET category == CategoryGet(PyInt(category_in.value).digits) IN
         IF category.found = "overflow" THEN "overflow"
         ELSE IF category.found = "none" THEN "redirect"
         ELSE "ok"

\* The category row that passed the check of lines 166-168.
LoadedCategory(category_in) ==
    CHOOSE c \in CategoryGet(PyInt(category_in.value).digits).rows : TRUE

\* The row of lines 183-190.
NewVideo(title_in, analysis_in, category_id, filename) ==
    [id |-> NextId(videos),
     title |-> strip(title_in),
     video_filename |-> filename,
     analysis |-> strip(analysis_in),
     category_id |-> category_id]

\* file.save left out
SaveFile_skipped(store, filename, upload, outcome) == store

\* What file.save leaves in the upload folder.
SaveFile(store, filename, upload, outcome) ==
    IF outcome = "open_failed" THEN store
    ELSE WriteFile(store, filename, [upload |-> upload, complete |-> outcome = "ok"])

\* the exception of file.save caught and passed over
RecordAfterSave_always(outcome, row) == videos \cup {row}

\* An exception raised by file.save leaves the handler before line 183:
\* the table after the call.
RecordAfterSave(outcome, row) ==
    IF outcome = "ok" THEN videos \cup {row} ELSE videos

\* What a finished add_video request is remembered by: its form, the name
\* file.save was given and how file.save ended ("none": it was not called).
VideoArgs(form, saved_as, save) == form @@ [saved_as |-> saved_as, save |-> save]

AdminAddVideo(sid, form, outcome) ==
    LET check == AddVideoCheck(form.title, form.category_id, form.file)
        unsaved == VideoArgs(form, <<>>, "none")
    IN
    IF ~login_required(sid)
    THEN /\ Completed("add_video", sid, unsaved, Redirect("admin_login"))
         /\ UNCHANGED <<logged_in, categories, videos, files, nUploads, conc>>
    ELSE IF check = "redirect"
    THEN /\ Completed("add_video", sid, unsaved, Redirect("admin_index"))
         /\ UNCHANGED <<logged_in, categories, videos, files, nUploads, conc>>
    ELSE IF check = "overflow"
    THEN /\ Completed("add_video", sid, unsaved, Failure(500))
         /\ UNCHANGED <<logged_in, categories, videos, files, nUploads, conc>>
    ELSE LET filename == ResolveFilename(files, form.file.value) IN
         /\ nUploads < MaxUploads
         /\ nUploads' = IF outcome = "open_failed" THEN nUploads ELSE nUploads + 1
         /\ files' = SaveFile(files, filename, nUploads + 1, outcome)
         /\ videos' = RecordAfterSave(outcome,
                         NewVideo(form.title, form.analysis,
                                  LoadedCategory(form.category_id).id, filename))
         /\ Completed("add_video", sid, VideoArgs(form, filename, outcome),
                      IF outcome = "ok" THEN Redirect("admin_index") ELSE Failure(500))
         /\ UNCHANGED <<logged_in, categories, conc>>

(* ------------------------------- API ----------------------------------- *)

\* .order_by(VideoContent.id.desc()).all()
RECURSIVE OrderByIdDesc(_)
OrderByIdDesc(rows) ==
    IF rows = {} THEN <<>>
    ELSE LET top == CHOOSE r \in rows : \A q \in rows : q.id <= r.id IN
         <<top>> \o OrderByIdDesc(rows \ {top})

\* VideoContent.query.filter_by(category_id=category.id)
FilterByCategory(category) == {v \in videos : v.category_id = category.id}

VideoListing(category) ==
    LET ordered == OrderByIdDesc(FilterByCategory(category)) IN
    [i \in 1..Len(ordered) |-> [id |-> ordered[i].id, title |-> ordered[i].title]]

\* GET /api/videos/<int:category_id>; the converter accepts any run of digits.
ApiVideosByCategory(url_id) ==
    LET category == CategoryGet(Canonical(url_id)) IN
    /\ Completed("api_videos", "anonymous", [category_id |-> url_id],
                 IF category.found = "overflow" THEN Failure(500)
                 ELSE IF category.found = "none" THEN Failure(404)
                 ELSE Json(VideoListing(CHOOSE c \in category.rows : TRUE)))
    /\ UNCHANGED <<logged_in, categories, videos, files, nUploads, conc>>

(* ----------------------- overlapping requests -------------------------- *)

\* The server handles requests on concurrent threads.  A handler's steps are
\* cut where it reads or writes the database or the upload folder.
Procs == {"p1", "p2"}

Idle == [pc |-> "idle"]

InAddVideo(p) == procs[p].pc \in {"av_probe", "av_save", "av_commit"}

\* Lines 140-144: up to and including the query for the name.
AddCategoryStart(p, sid, name_in) ==
    LET name == strip(name_in)
        args == [name |-> name_in]
    IN
    /\ procs[p].pc = "idle"
    /\ IF ~login_required(sid)
       THEN /\ Completed("add_category", sid, args, Redirect("admin_login"))
            /\ procs' = procs
       ELSE IF name = <<>> \/ ~CategoryNameFree(name)
       THEN /\ Completed("add_category", sid, args, Redirect("admin_index"))
            /\ procs' = procs
       ELSE /\ procs' = [procs EXCEPT ![p] =
                            [pc |-> "ac_commit", sid |-> sid, name_in |-> name_in]]
            /\ last' = last
    /\ UNCHANGED <<logged_in, categories, videos, files, nUploads, stored, overlapped>>

\* Lines 145-148: the insert and its commit.
AddCategoryCommit(p) ==
    LET name == strip(procs[p].name_in)
        args == [name |-> procs[p].name_in]
    IN
    /\ procs[p].pc = "ac_commit"
    /\ IF UniqueNameAllows(name)
       THEN /\ categories' = InsertCategory(name)
            /\ Completed("add_category", procs[p].sid, args, Redirect("admin_index"))
       ELSE /\ categories' = categories
            /\ Completed("add_category", procs[p].sid, args, Failure(500))
    /\ procs' = [procs EXCEPT ![p] = Idle]
    /\ UNCHANGED <<logged_in, videos, files, nUploads, stored, overlapped>>

\* Lines 155-174: the checks, the sanitised name and the first save_path.
AddVideoStart(p, sid, form) ==
    LET check == AddVideoCheck(form.title, form.category_id, form.file) IN
    /\ procs[p].pc = "idle"
    /\ IF ~login_required(sid)
       THEN /\ Completed("add_video", sid, VideoArgs(form, <<>>, "none"),
                         Redirect("admin_login"))
            /\ UNCHANGED <<procs, nUploads, overlapped>>
       ELSE IF check = "redirect"
       THEN /\ Completed("add_video", sid, VideoArgs(form, <<>>, "none"),
                         Redirect("admin_index"))
            /\ UNCHANGED <<procs, nUploads, overlapped>>
       ELSE IF check = "overflow"
       THEN /\ Completed("add_video", sid, VideoArgs(form, <<>>, "none"), Failure(500))
            /\ UNCHANGED <<procs, nUploads, overlapped>>
       ELSE /\ nUploads < MaxUploads
            /\ nUploads' = nUploads + 1
            /\ procs' = [procs EXCEPT ![p] =
                   [pc |-> "av_probe", sid |-> sid, form |-> form,
                    upload |-> nUploads + 1,
                    category_id |-> LoadedCategory(form.category_id).id,
                    original_name |-> rsplit_dot(secure_filename(form.file.value)),
                    filename |-> secure_filename(form.file.value),
                    counter |-> 1]]
            /\ overlapped' = (overlapped \/ \E q \in Procs \ {p} : InAddVideo(q))
            /\ last' = last
    /\ UNCHANGED <<logged_in, categories, videos, files, stored>>

\* Lines 175-180: one test of the while condition, and the body when it holds.
AddVideoProbe(p) ==
    /\ procs[p].pc = "av_probe"
    /\ IF PathExists(files, procs[p].filename)
       THEN procs' = [procs EXCEPT
                         ![p].filename = Candidate(procs[p].original_name, procs[p].counter),
                         ![p].counter = procs[p].counter + 1]
       ELSE procs' = [procs EXCEPT ![p].pc = "av_save"]
    /\ UNCHANGED <<logged_in, categories, videos, files, nUploads, last, stored, overlapped>>

\* Line 181: file.save(save_path).
AddVideoSave(p, outcome) ==
    LET me == procs[p] IN
    /\ me.pc = "av_save"
    /\ files' = SaveFile(files, me.filename, me.upload, outcome)
    /\ stored' = IF outcome = "open_failed" THEN stored
                 ELSE (me.upload :> me.filename) @@ stored
    /\ IF outcome = "ok"
       THEN /\ procs' = [procs EXCEPT ![p].pc = "av_commit"]
            /\ last' = last
       ELSE /\ procs' = [procs EXCEPT ![p] = Idle]
            /\ Completed("add_video", me.sid, VideoArgs(me.form, me.filename, outcome),
                         Failure(500))
    /\ UNCHANGED <<logged_in, categories, videos, nUploads, overlapped>>

\* Lines 183-191: the row and its commit.
AddVideoCommit(p) ==
    LET me == procs[p] IN
    /\ me.pc = "av_commit"
    /\ videos' = RecordAfterSave("ok",
                    NewVideo(me.form.title, me.form.analysis, me.category_id, me.filename))
    /\ Completed("add_video", me.sid, VideoArgs(me.form, me.filename, "ok"),
                 Redirect("admin_index"))
    /\ procs' = [procs EXCEPT ![p] = Idle]
    /\ UNCHANGED <<logged_in, categories, files, nUploads, stored, overlapped>>

(* --------------------------- specification ----------------------------- *)

Init ==
    /\ logged_in = {}
    /\ categories = {}
    /\ videos = {}
    /\ files = <<>>
    /\ nUploads = 0
    /\ last = [op |-> "none", sid |-> "none", args |-> [none |-> 0],
               resp |-> [kind |-> "none"], pre |-> [none |-> 0]]
    /\ procs = [p \in Procs |-> Idle]
    /\ stored = <<>>
    /\ overlapped = FALSE

\* The requests of a run, with their inputs drawn from the given sets.
Requests(SS, CC, NN, FF, OO, UU) ==
    \/ \E sid \in SS, username \in CC, password \in CC :
          AdminLogin(sid, "POST", username, password)
    \/ \E sid \in SS : AdminLogin(sid, "GET", "", "")
    \/ \E sid \in SS : AdminLogout(sid)
    \/ \E sid \in SS : AdminIndex(sid)
    \/ \E sid \in SS, name_in \in NN : AdminAddCategory(sid, name_in)
    \/ \E sid \in SS, form \in FF, outcome \in OO : AdminAddVideo(sid, form, outcome)
    \/ \E url_id \in UU : ApiVideosByCategory(url_id)

\* Sessions, logins and categories in full; one upload name.
Next ==
    Requests(Sessions, CredentialInputs, NameInputs,
             {f \in ValidForms({<<"1">>}) : f.file.value = <<"f", ".", "m">>}
                \cup InvalidForms,
             {"ok"}, {<<"1">>})

Spec == Init /\ [][Next]_vars

\* Uploads in full: every form, every way file.save ends; one session, one category.
NextUpload ==
    Requests({"s1"}, {"admin", "pw"}, {<<"a">>},
             ValidForms({<<"1">>}) \cup InvalidForms, SaveOutcomes, {<<"1">>})

SpecUpload == Init /\ [][NextUpload]_vars

\* The catalog in full: two categories, videos in both, every listed id.
NextCatalog ==
    Requests({"s1"}, {"admin", "pw"}, {<<"a">>, <<"b">>},
             {f \in ValidForms({<<"1">>, <<" ", "2">>}) : f.file.value = <<"f", ".", "m">>},
             {"ok"}, UrlIdInputs)

SpecCatalog == Init /\ [][NextCatalog]_vars

\* Requests that overlap: two handler threads, each step one action.
NextConc ==
    \/ AdminLogin("s1", "POST", AdminUsername, AdminPassword)
    \/ \E p \in Procs, name_in \in {<<"a">>, <<" ", "a">>} :
          AddCategoryStart(p, "s1", name_in)
    \/ \E p \in Procs : AddCategoryCommit(p)
    \/ \E p \in Procs,
          form \in {f \in ValidForms({<<"1">>}) :
                       f.file.value \in {<<"f", ".", "m">>, <<"/", "f", ".", "m">>}}
                   \cup {Form(<<" ">>, Given(<<"1">>), Given(<<"f", ".", "m">>))} :
          AddVideoStart(p, "s1", form)
    \/ \E p \in Procs : AddVideoProbe(p)
    \/ \E p \in Procs, outcome \in SaveOutcomes : AddVideoSave(p, outcome)
    \/ \E p \in Procs : AddVideoCommit(p)

SpecConc == Init /\ [][NextConc]_vars

(* ------------------------------ properties ----------------------------- *)

\* A text without its leading and trailing whitespace.
Trim(s) ==
    LET inked == {i \in 1..Len(s) : s[i] \notin Whitespace} IN
    IF inked = {} THEN <<>>
    ELSE SubSeq(s, CHOOSE i \in inked : \A j \in inked : i <= j,
                   CHOOSE i \in inked : \A j \in inked : j <= i)

StorageUnchanged ==
    /\ categories = last.pre.categories
    /\ videos = last.pre.videos
    /\ files = last.pre.files

WasLoggedIn == last.sid \in last.pre.logged_in

\* C1: a request to add_category or add_video from a session whose flag is
\* not set is answered by a redirect to the login page and leaves the
\* categories, the videos and the upload folder as they were.
C1_GateBlocksWrites ==
    (last.op \in {"add_category", "add_video"} /\ ~WasLoggedIn)
        => (last.resp = Redirect("admin_login") /\ StorageUnchanged)

\* An otherwise valid upload from a session that is not logged in, while the
\* other session is, into a catalog that already holds a video.
C1_Witness ==
    /\ last.op = "add_video"
    /\ ~WasLoggedIn
    /\ last.pre.logged_in # {}
    /\ last.args.title = <<" ", "t">>
    /\ last.args.category_id = Given(<<"1">>)
    /\ last.args.file = Given(<<"f", ".", "m">>)
    /\ videos # {}
    /\ last.resp = Redirect("admin_login")

\* C9: the flag of a session changes only by its own login and logout: a
\* POST login sets it exactly when both fields equal the configured
\* credentials, answers every mismatch with the same error and leaves the
\* flag as it was; a logout clears it; no other request touches any flag.
C9_FlagFollowsLogin ==
    /\ last.op = "login" =>
          IF /\ last.args.method = "POST"
             /\ last.args.username = AdminUsername
             /\ last.args.password = AdminPassword
          THEN logged_in = last.pre.logged_in \cup {last.sid}
          ELSE /\ logged_in = last.pre.logged_in
               /\ last.args.method = "POST" =>
                     last.resp = Render("login.html", "bad login or password")
    /\ last.op = "logout" => logged_in = last.pre.logged_in \ {last.sid}
    /\ last.op \notin {"none", "login", "logout"} => logged_in = last.pre.logged_in

\* A login with the right user name and a wrong password, by a session that
\* is not logged in while the other one is.
C9_Witness ==
    /\ last.op = "login"
    /\ last.args.method = "POST"
    /\ last.args.username = AdminUsername
    /\ last.args.password # AdminPassword
    /\ last.sid \notin logged_in
    /\ logged_in # {}

IdText(n) == IntToStr(n)

\* The stored categories that a submitted category id names.
NamedBy(text, cats) ==
    {c \in cats : IsDigits(Trim(text)) /\ Canonical(Trim(text)) = IdText(c.id)}

FileSupplied(file) == file.present /\ file.value # <<>>

\* The last request carried a title, a category id of a stored category and a file.
ValidUpload ==
    /\ Trim(last.args.title) # <<>>
    /\ last.args.category_id.present
    /\ NamedBy(last.args.category_id.value, last.pre.categories) # {}
    /\ FileSupplied(last.args.file)

OneVideoAdded ==
    \E v \in videos \ last.pre.videos :
        /\ videos = last.pre.videos \cup {v}
        /\ v.video_filename \in DOMAIN files

\* C2, as claimed: every add_video call of a logged-in session with a title,
\* a stored category and a file adds exactly one video, whose file is in
\* the upload folder when the call returns.
C2_EveryValidCallAddsOne ==
    (last.op = "add_video" /\ WasLoggedIn /\ ValidUpload) => OneVideoAdded

\* C2, amended: ... and whose file is written without failure adds exactly
\* one video, whose file is in the upload folder when the call returns.
C2_ValidSavedCallAddsOne ==
    (last.op = "add_video" /\ WasLoggedIn /\ ValidUpload /\ last.args.save = "ok")
        => (OneVideoAdded /\ last.resp = Redirect("admin_index"))

\* A second upload of f.m, saved as f_1.m beside an earlier video.
C2_Witness ==
    /\ last.op = "add_video"
    /\ WasLoggedIn
    /\ ValidUpload
    /\ last.args.save = "ok"
    /\ last.pre.videos # {}
    /\ last.args.saved_as = <<"f", "_", "1", ".", "m">>
    /\ \E v \in videos \ last.pre.videos : v.video_filename = last.args.saved_as

HasExtension(name) == \E i \in 2..(Len(name) - 1) : name[i] = "."

\* name_k.ext for name.ext
Suffixed(name, k) ==
    LET dots == {i \in 1..Len(name) : name[i] = "."}
        d == CHOOSE i \in dots : \A j \in dots : j <= i
    IN  SubSeq(name, 1, d - 1) \o <<"_">> \o IntToStr(k) \o SubSeq(name, d, Len(name))

\* C3: in a run of non-overlapping add_video calls, an upload is saved under
\* its sanitised name when that name is free, and under name_k.ext for the
\* smallest k >= 1 that is free when name.ext is taken; it never writes to
\* a name that was in the folder, and every file that was there keeps its
\* content.
C3_SmallestFreeSuffix ==
    (last.op = "add_video" /\ last.args.save # "none") =>
        LET sanitized == secure_filename(last.args.file.value)
            before == DOMAIN last.pre.files
            saved_as == last.args.saved_as
        IN  /\ saved_as \notin before
            /\ \A n \in before : n \in DOMAIN files /\ files[n] = last.pre.files[n]
            /\ (sanitized # <<>> /\ sanitized \notin before) => saved_as = sanitized
            /\ (sanitized \in before /\ HasExtension(sanitized)) =>
                  \E k \in 1..(Cardinality(before) + 1) :
                      /\ saved_as = Suffixed(sanitized, k)
                      /\ \A j \in 1..(k - 1) : Suffixed(sanitized, j) \in before

\* Three uploads of f.m: f.m, f_1.m and f_2.m, each holding its own payload.
C3_Witness ==
    /\ last.op = "add_video"
    /\ secure_filename(last.args.file.value) = <<"f", ".", "m">>
    /\ last.args.saved_as = <<"f", "_", "2", ".", "m">>
    /\ DOMAIN files =
          {<<"f", ".", "m">>, <<"f", "_", "1", ".", "m">>, <<"f", "_", "2", ".", "m">>}
    /\ \A n \in DOMAIN files : files[n].complete
    /\ files[<<"f", ".", "m">>].upload = 1
    /\ files[<<"f", "_", "1", ".", "m">>].upload = 2
    /\ files[<<"f", "_", "2", ".", "m">>].upload = 3

\* C6: an add_video call that passed the checks and whose file write fails
\* creates no video.
C6_FailedWriteNoRecord ==
    (last.op = "add_video" /\ last.args.save \in {"open_failed", "write_failed"})
        => (videos = last.pre.videos /\ last.resp = Failure(500))

\* A write that fails part-way, leaving a truncated file, beside an earlier video.
C6_Witness ==
    /\ last.op = "add_video"
    /\ last.args.save = "write_failed"
    /\ last.pre.videos # {}
    /\ last.args.saved_as \in DOMAIN files
    /\ ~files[last.args.saved_as].complete

\* The last request fails one of the checks the handler is to make.
FailsValidation ==
    \/ Trim(last.args.title) = <<>>
    \/ ~last.args.category_id.present
    \/ ~IsDigits(Trim(last.args.category_id.value))
    \/ NamedBy(last.args.category_id.value, last.pre.categories) = {}
    \/ ~FileSupplied(last.args.file)

\* C7: an add_video call of a logged-in session that fails a check is
\* answered by the redirect to the admin page and leaves the videos and
\* the upload folder as they were.
C7_InvalidCallRedirects ==
    (last.op = "add_video" /\ WasLoggedIn /\ FailsValidation) =>
        /\ last.resp = Redirect("admin_index")
        /\ videos = last.pre.videos
        /\ files = last.pre.files

\* What does hold of such a call: nothing is stored, and the answer is the
\* redirect unless the category id is an integer too large for the database.
C7_InvalidCallStoresNothing ==
    (last.op = "add_video" /\ WasLoggedIn /\ FailsValidation) =>
        /\ StorageUnchanged
        /\ last.args.save = "none"
        /\ \/ last.resp = Redirect("admin_index")
           \/ /\ last.resp = Failure(500)
              /\ ~FitsSqliteInteger(Canonical(Trim(last.args.category_id.value)))

\* body lists exactly the videos of category c, newest (largest id) first.
ListingOf(body, c) ==
    LET mine == {v \in videos : v.category_id = c.id} IN
    /\ Len(body) = Cardinality(mine)
    /\ \A v \in mine : \E i \in 1..Len(body) : body[i] = [id |-> v.id, title |-> v.title]
    /\ \A i, j \in 1..Len(body) : i < j => body[i].id > body[j].id

\* C8: the listing of a stored category holds exactly its videos, the most
\* recently created first (a video created later has the larger id); the
\* listing of an id that names no stored category is NotFound.
C8_ListingNewestFirst ==
    /\ (last.op = "add_video" /\ last.args.save = "ok") =>
          \A v \in videos \ last.pre.videos : \A w \in last.pre.videos : v.id > w.id
    /\ last.op = "api_videos" =>
          LET named == NamedBy(last.args.category_id, categories) IN
          IF named = {} THEN last.resp = Failure(404)
          ELSE /\ last.resp.kind = "json"
               /\ \A c \in named : ListingOf(last.resp.body, c)

\* What does hold: as C8, but an id too large for the database is answered
\* by a server error.
C8_ListingWithinRange ==
    /\ (last.op = "add_video" /\ last.args.save = "ok") =>
          \A v \in videos \ last.pre.videos : \A w \in last.pre.videos : v.id > w.id
    /\ last.op = "api_videos" =>
          LET named == NamedBy(last.args.category_id, categories) IN
          IF ~FitsSqliteInteger(Canonical(last.args.category_id))
          THEN last.resp = Failure(500)
          ELSE IF named = {} THEN last.resp = Failure(404)
          ELSE /\ last.resp.kind = "json"
               /\ \A c \in named : ListingOf(last.resp.body, c)

\* C4: the names of the stored categories are pairwise distinct, also when
\* requests for one name overlap and each finds the name free before either
\* inserts.
C4_CategoryNamesDistinct ==
    \A c1, c2 \in categories : c1.name = c2.name => c1 = c2

\* Two requests found the name free; the first insert stored it and the
\* second was rejected by the database.
C4_Witness ==
    /\ last.op = "add_category"
    /\ last.resp = Failure(500)
    /\ \E c \in categories : c.name = Trim(last.args.name)
    /\ Cardinality(categories) = 1

\* Every payload lies under a name of its own, and so does every video.
UploadsKeptApart ==
    /\ \A v1, v2 \in videos : v1.video_filename = v2.video_filename => v1 = v2
    /\ \A u1, u2 \in DOMAIN stored : stored[u1] = stored[u2] => u1 = u2
    /\ \A u \in DOMAIN stored :
          stored[u] \in DOMAIN files /\ files[stored[u]].upload = u

\* C10, as claimed: however add_video requests for one sanitised name
\* interleave, each writes under a name no other writes to, no two videos
\* share a file name and no payload is overwritten.
C10_UniqueUnderConcurrency == UploadsKeptApart

\* C10, amended: as long as no add_video request has started while another
\* was between its checks and its insert, each has written under a name no
\* other wrote to, no two videos share a file name and no payload was
\* overwritten.
C10_UniqueWithoutOverlap == ~overlapped => UploadsKeptApart

\* Two uploads of one name, one after the other, stored as f.m and f_1.m.
C10_Witness ==
    /\ ~overlapped
    /\ Cardinality(videos) = 2
    /\ {v.video_filename : v \in videos} = {<<"f", ".", "m">>, <<"f", "_", "1", ".", "m">>}
    /\ Cardinality(DOMAIN stored) = 2

====
